---- MODULE Spec2Model ----
(***************************************************************************)
(* A model of dns_beacon.py: the module-level logging setup and shutdown   *)
(* flag, the signal handler, rand_subdomain, perform_query and the         *)
(* scheduler loop of main().                                               *)
(*                                                                         *)
(* Time is counted in centiseconds (the 0.2 s sub-step is 20, the 0.1 s    *)
(* jitter floor is 10).  Text that the program inspects character by       *)
(* character (labels, domains, names) is a sequence of one-character       *)
(* strings; text it only joins is a string.                                *)
(***************************************************************************)
EXTENDS Integers, Sequences, FiniteSets, TLC

VARIABLES
    pc,              \* position of the main thread
    args,            \* the command line / argparse Namespace
    nameservers,     \* resolver.nameservers ("system" or the custom server)
    stop_requested,  \* the module-level shutdown flag
    counter,         \* main(): counter
    sub,             \* main(): sub
    fqdn,            \* main(): fqdn
    timestamp,       \* main(): timestamp (a logical clock: the query's ordinal)
    rcode,           \* main(): rcode
    count,           \* main(): count
    rdata,           \* main(): rdata
    log_line,        \* main(): log_line
    stub,            \* how the resolver call in flight will behave
    interval,        \* main(): interval
    slept,           \* main(): slept
    calls,           \* every call made to logging.info / logging.debug, in order
    file,            \* records the FileHandler wrote to dns_beacon.log
    console,         \* records the StreamHandler wrote to stdout
    resolves,        \* history: number of resolver.resolve calls started
    signals,         \* history: number of signals delivered
    drew,            \* history: line 116 called random.uniform in this iteration
    flag_set_at,     \* history: pc at which the flag was first set
    since_stop,      \* history: [queries, substeps] started after the flag was set
    queried,         \* history: the name the last resolver.resolve call was given
    charset          \* the charset argument of the rand_subdomain call

vars == <<pc, args, nameservers, stop_requested, counter, sub, fqdn, timestamp,
          rcode, count, rdata, log_line, stub, interval, slept, calls, file, console,
          resolves, signals, drew, flag_set_at, since_stop, queried, charset>>

locals == <<sub, fqdn, timestamp, rcode, count, rdata, log_line>>

----------------------------------------------------------------------------
(* Bounds of the exploration                                               *)

MaxQueries == 2
MaxSignals == 2

(* Program constants                                                       *)

Step == 20
JitterFloor == 10
JitterPercent == 10

Min(a, b) == IF a <= b THEN a ELSE b
Max(a, b) == IF a >= b THEN a ELSE b

----------------------------------------------------------------------------
(* logging                                                                 *)

LevelNo(level) == IF level = "DEBUG" THEN 10 ELSE 20

RootLevel == "INFO"

\* Logger.isEnabledFor: a record below the root logger's level is dropped
\* before any handler sees it.
IsEnabledFor(level) == LevelNo(level) >= LevelNo(RootLevel)

\* A log record: its level, which message it is, and for a query's line the
\* line's timestamp (0 otherwise); the text of a query's line is log_line.
Record(level, kind, ts) == [level |-> level, kind |-> kind, ts |-> ts]

\* logging.info / logging.debug on the root logger with its two handlers.
Emit(level, kind, ts) ==
    /\ calls' = Append(calls, Record(level, kind, ts))
    /\ IF IsEnabledFor(level)
       THEN /\ file' = Append(file, Record(level, kind, ts))
            /\ console' = Append(console, Record(level, kind, ts))
       ELSE UNCHANGED <<file, console>>

----------------------------------------------------------------------------
(* Python helpers                                                          *)

\* int % int with the sign of the divisor (b # 0, a >= 0).
PyMod(a, b) ==
    IF b > 0 THEN a % b
    ELSE LET r == a % (0 - b) IN IF r = 0 THEN 0 ELSE r + b

\* A strip that removes one trailing dot only.
RStripDots_One(s) ==
    IF s # <<>> /\ s[Len(s)] = "."
    THEN SubSeq(s, 1, Len(s) - 1)
    ELSE s

\* str.rstrip('.'): every trailing dot is removed.
RECURSIVE RStripDots(_)
RStripDots(s) ==
    IF s # <<>> /\ s[Len(s)] = "."
    THEN RStripDots(SubSeq(s, 1, Len(s) - 1))
    ELSE s

\* ",".join(texts): the separator without its space.
RECURSIVE Join_NoSpace(_)
Join_NoSpace(texts) ==
    IF texts = <<>> THEN ""
    ELSE IF Len(texts) = 1 THEN texts[1]
    ELSE texts[1] \o "," \o Join_NoSpace(Tail(texts))

\* ", ".join(texts)
RECURSIVE Join(_)
Join(texts) ==
    IF texts = <<>> THEN ""
    ELSE IF Len(texts) = 1 THEN texts[1]
    ELSE texts[1] \o ", " \o Join(Tail(texts))

\* Sequences over S of length exactly n (n <= 0: the empty sequence only).
RECURSIVE SeqsOfLen(_, _)
SeqsOfLen(S, n) ==
    IF n <= 0 THEN {<<>>}
    ELSE {Append(s, x) : s \in SeqsOfLen(S, n - 1), x \in S}

\* A draw that can pass the larger end point by up to one sub-step.
Uniform_Overshoot(a, b) ==
    {x \in Min(a, b)..(Max(a, b) + Step) : x = a \/ x = b \/ x % Step = 0}

\* The values random.uniform(a, b) = a + (b-a) * random() is explored at:
\* both end points and the multiples of the sub-step between them (a > b is
\* accepted by random.uniform and draws between b and a).
Uniform(a, b) ==
    {x \in Min(a, b)..Max(a, b) : x = a \/ x = b \/ x % Step = 0}

\* The indexes random.choice is explored at: the first and the last element.
DrawnIndexes(n) == {1, n} \cap (1..n)

random_choice(seq) == {seq[i] : i \in DrawnIndexes(Len(seq))}

\* string.ascii_lowercase + string.digits
DefaultCharset ==
    <<"a","b","c","d","e","f","g","h","i","j","k","l","m",
      "n","o","p","q","r","s","t","u","v","w","x","y","z",
      "0","1","2","3","4","5","6","7","8","9">>

\* The charset argument: None (the default) or the string given.
NoCharset == [given |-> FALSE, chars |-> <<>>]
Charset(chars) == [given |-> TRUE, chars |-> chars]

\* if charset is None: charset = string.ascii_lowercase + string.digits
CharsetUsed(cs) == IF cs.given THEN cs.chars ELSE DefaultCharset

\* A generator that draws one character too many.
rand_subdomain_OneMore(length, cs) ==
    SeqsOfLen(random_choice(CharsetUsed(cs)), length + 1)

\* The labels rand_subdomain(length, charset) can return.
rand_subdomain(length, cs) ==
    SeqsOfLen(random_choice(CharsetUsed(cs)), length)

----------------------------------------------------------------------------
(* The resolver collaborator and perform_query                             *)

MaxAnswers == 3

Rdata(text) == [renders |-> TRUE, text |-> text]
\* A record whose to_text() raises; text is str() of that exception.
BadRdata == [renders |-> FALSE, text |-> "bad rdata"]

Answers(recs) == [raises |-> "none", msg |-> "", answers |-> recs]
Raises(cls, msg) == [raises |-> cls, msg |-> msg, answers |-> <<>>]

NoStub == Raises("unset", "")

Rdatas == {Rdata("1.2.3.4"), Rdata("1.2.3.5"), Rdata("1.2.3.6"), BadRdata}

\* "Other" is any exception class that is an Exception but none of
\* dns.resolver.NXDOMAIN, dns.resolver.NoAnswer, dns.exception.Timeout.
ExceptionClasses == {"NXDOMAIN", "NoAnswer", "Timeout", "Other"}

\* Every behaviour of resolver.resolve(fqdn, qtype, lifetime=5): an answer
\* of 1..MaxAnswers records (without an rrset it raises NoAnswer), or an
\* exception.
AllBehaviours ==
    {Answers(recs) :
        recs \in UNION {SeqsOfLen(Rdatas, n) : n \in 1..MaxAnswers}}
    \cup {Raises(cls, msg) : cls \in ExceptionClasses, msg \in {"", "boom"}}

\* The behaviours the scheduler loop is explored with.
LoopBehaviours ==
    { Answers(<<Rdata("1.2.3.4"), Rdata("1.2.3.5")>>),
      Answers(<<Rdata("1.2.3.4"), BadRdata>>),
      Raises("NXDOMAIN", ""), Raises("NoAnswer", ""),
      Raises("Timeout", ""), Raises("Other", "boom") }

NoException == [cls |-> "none", msg |-> ""]

\* The exception the try block of perform_query ends with: the one resolve
\* raised, else the one the first failing to_text() raised, else none.
TryBlock(b) ==
    IF b.raises # "none" THEN [cls |-> b.raises, msg |-> b.msg]
    ELSE IF \E i \in 1..Len(b.answers) : ~b.answers[i].renders
    THEN LET i == CHOOSE k \in 1..Len(b.answers) :
                    /\ ~b.answers[k].renders
                    /\ \A j \in 1..(k - 1) : b.answers[j].renders
         IN [cls |-> "Other", msg |-> b.answers[i].text]
    ELSE NoException

Returned(v) == [raised |-> "none", value |-> v]
Propagated(e) == [raised |-> e.cls, value |-> <<"", 0, "">>]

\* Every class the resolver call or to_text() raises derives from Exception
\* (SIGINT is handled by signal_handler, so no KeyboardInterrupt is raised).
IsException(cls) == cls \in ExceptionClasses

\* The except clauses without the final "except Exception".
ExceptClauses_NoCatchAll(e) ==
    IF e.cls = "NXDOMAIN" THEN Returned(<<"NXDOMAIN", 0, "">>)
    ELSE IF e.cls = "NoAnswer" THEN Returned(<<"NOANSWER", 0, "">>)
    ELSE IF e.cls = "Timeout" THEN Returned(<<"TIMEOUT", 0, "">>)
    ELSE Propagated(e)

\* The except clauses, in order; an exception none of them names propagates.
ExceptClauses(e) ==
    IF e.cls = "NXDOMAIN" THEN Returned(<<"NXDOMAIN", 0, "">>)
    ELSE IF e.cls = "NoAnswer" THEN Returned(<<"NOANSWER", 0, "">>)
    ELSE IF e.cls = "Timeout" THEN Returned(<<"TIMEOUT", 0, "">>)
    ELSE IF IsException(e.cls) THEN Returned(<<"ERROR", 0, e.msg>>)
    ELSE Propagated(e)

\* perform_query under resolver behaviour b: what it returns, (rcode,
\* answer_count, rdata_summary), or the exception it lets through.
perform_query(b) ==
    LET e == TryBlock(b) IN
    IF e.cls = "none"
    THEN Returned(<<"NOERROR", Len(b.answers),
                    Join([i \in 1..Len(b.answers) |-> b.answers[i].text])>>)
    ELSE ExceptClauses(e)

----------------------------------------------------------------------------
(* Command lines                                                           *)

QtypeChoices == {"A", "AAAA", "TXT", "MX"}

Base ==
    [domain |-> <<"t", "l">>, min_interval |-> 40, max_interval |-> 40,
     sub_len |-> 1, qtype |-> "A", jitter |-> FALSE, resolver |-> "None",
     log_every |-> 1]

IntervalValues == {-20, 0, 40}

\* The command lines explored: every pair of interval values with and
\* without --jitter, and each other option varied on its own.
CommandLines ==
    {[Base EXCEPT !.min_interval = a, !.max_interval = b, !.jitter = j] :
        a \in IntervalValues, b \in IntervalValues, j \in BOOLEAN}
    \cup {[Base EXCEPT !.min_interval = 160, !.max_interval = 160]}
    \cup {[Base EXCEPT !.sub_len = n] : n \in {-1, 0, 2}}
    \cup {[Base EXCEPT !.log_every = n] : n \in {-2, 0, 2, 3}}
    \cup {[Base EXCEPT !.domain = d] :
            d \in {<<"t", "l", ".">>, <<"t", "l", ".", ".">>, <<>>}}
    \cup {[Base EXCEPT !.qtype = q] : q \in {"MX", "CNAME"}}
    \cup {[Base EXCEPT !.resolver = "10.0.0.53"]}

\* log_line before the first query formats one.
NoLine ==
    [ts |-> 0, fqdn |-> <<>>, qtype |-> "", rcode |-> "", answers |-> 0,
     rdata |-> ""]

----------------------------------------------------------------------------
(* Initial state: the module has been imported (logging configured, the    *)
(* flag False, both handlers installed) and main() is about to parse.      *)

Init ==
    /\ pc = "parse"
    /\ args \in CommandLines
    /\ nameservers = "system"
    /\ stop_requested = FALSE
    /\ counter = 0
    /\ sub = <<>>
    /\ fqdn = <<>>
    /\ timestamp = 0
    /\ stub = NoStub
    /\ rcode = ""
    /\ count = 0
    /\ rdata = ""
    /\ log_line = NoLine
    /\ interval = 0
    /\ slept = 0
    /\ calls = <<>>
    /\ file = <<>>
    /\ console = <<>>
    /\ resolves = 0
    /\ signals = 0
    /\ drew = FALSE
    /\ flag_set_at = "never"
    /\ since_stop = [queries |-> 0, substeps |-> 0]
    /\ queried = <<>>
    /\ charset = NoCharset

\* The process has ended: argparse's usage error (exit 2), an uncaught
\* exception, or the normal exit after main() returned.
Ended == pc \in {"usage_error", "crashed", "exited"}

----------------------------------------------------------------------------
(* signal_handler, run on SIGINT and on SIGTERM                            *)

\* A handler that sets the flag and logs nothing.
signal_handler_Silent ==
    /\ ~Ended
    /\ signals < MaxSignals
    /\ stop_requested' = TRUE
    /\ signals' = signals + 1
    /\ flag_set_at' = IF flag_set_at = "never" THEN pc ELSE flag_set_at
    /\ UNCHANGED <<pc, args, charset, queried, nameservers, counter, locals, stub, interval,
                   slept, calls, file, console, resolves, drew, since_stop>>

signal_handler ==
    /\ ~Ended
    /\ signals < MaxSignals
    /\ Emit("INFO", "stopping", 0)
    /\ stop_requested' = TRUE
    /\ signals' = signals + 1
    /\ flag_set_at' = IF flag_set_at = "never" THEN pc ELSE flag_set_at
    /\ UNCHANGED <<pc, args, charset, queried, nameservers, counter, locals, stub, interval,
                   slept, resolves, drew, since_stop>>

----------------------------------------------------------------------------
(* main()                                                                  *)

\* parser.parse_args(): argparse rejects a --qtype outside its choices with
\* a usage message and exit status 2; it checks types only otherwise.
main_parse_args ==
    /\ pc = "parse"
    /\ pc' = IF args.qtype \in QtypeChoices THEN "resolver" ELSE "usage_error"
    /\ UNCHANGED <<args, charset, queried, nameservers, stop_requested, counter, locals, stub,
                   interval, slept, calls, file, console, resolves, signals,
                   drew, flag_set_at, since_stop>>

main_resolver ==
    /\ pc = "resolver"
    /\ nameservers' = IF args.resolver # "None" THEN args.resolver ELSE "system"
    /\ Emit("INFO", "resolver", 0)
    /\ pc' = "starting"
    /\ UNCHANGED <<args, charset, queried, stop_requested, counter, locals, stub, interval,
                   slept, resolves, signals, drew, flag_set_at, since_stop>>

main_log_starting ==
    /\ pc = "starting"
    /\ counter' = 0
    /\ Emit("INFO", "starting", 0)
    /\ pc' = "press"
    /\ UNCHANGED <<args, charset, queried, nameservers, stop_requested, locals, stub, interval,
                   slept, resolves, signals, drew, flag_set_at, since_stop>>

main_log_press ==
    /\ pc = "press"
    /\ Emit("INFO", "press", 0)
    /\ pc' = "loop"
    /\ UNCHANGED <<args, charset, queried, nameservers, stop_requested, counter, locals, stub,
                   interval, slept, resolves, signals, drew, flag_set_at,
                   since_stop>>

\* A loop head that does not look at the flag.
main_loop_test_NoExit ==
    /\ pc = "loop"
    /\ pc' = "generate"
    /\ UNCHANGED <<args, charset, queried, nameservers, stop_requested, counter, locals, stub,
                   interval, slept, calls, file, console, resolves, signals,
                   drew, flag_set_at, since_stop>>

\* A loop head that looks at the flag from the second pass on.
main_loop_test_FirstPass ==
    /\ pc = "loop"
    /\ pc' = IF stop_requested /\ resolves >= 1 THEN "final" ELSE "generate"
    /\ UNCHANGED <<args, charset, queried, nameservers, stop_requested, counter, locals, stub,
                   interval, slept, calls, file, console, resolves, signals,
                   drew, flag_set_at, since_stop>>

\* while not stop_requested:
main_loop_test ==
    /\ pc = "loop"
    /\ pc' = IF stop_requested THEN "final" ELSE "generate"
    /\ UNCHANGED <<args, charset, queried, nameservers, stop_requested, counter, locals, stub,
                   interval, slept, calls, file, console, resolves, signals,
                   drew, flag_set_at, since_stop>>

\* The label, the name, the timestamp and the call of perform_query, whose
\* resolver call is now in flight.  Queries are explored up to MaxQueries,
\* and past it only to let a requested stop run to its end.
main_begin_query ==
    /\ pc = "generate"
    /\ resolves < MaxQueries \/ stop_requested
    /\ \E label \in rand_subdomain(args.sub_len, NoCharset) :
          /\ sub' = label
          /\ fqdn' = RStripDots(label \o <<".">> \o args.domain)
          /\ queried' = fqdn'
    /\ timestamp' = resolves + 1
    /\ stub' \in LoopBehaviours
    /\ resolves' = resolves + 1
    /\ since_stop' = IF stop_requested
                     THEN [since_stop EXCEPT !.queries = @ + 1]
                     ELSE since_stop
    /\ pc' = "query"
    /\ UNCHANGED <<args, charset, nameservers, stop_requested, counter, rcode,
                   count, rdata, log_line, interval, slept, calls, file, console, signals,
                   drew, flag_set_at>>

\* perform_query returns (or lets an exception through, which ends main()).
main_end_query ==
    /\ pc = "query"
    /\ LET r == perform_query(stub) IN
          IF r.raised = "none"
          THEN /\ rcode' = r.value[1]
               /\ count' = r.value[2]
               /\ rdata' = r.value[3]
               /\ pc' = "log"
          ELSE /\ pc' = "crashed"
               /\ UNCHANGED <<rcode, count, rdata>>
    /\ UNCHANGED <<args, charset, queried, nameservers, stop_requested, counter, sub, fqdn,
                   timestamp, log_line, stub, interval, slept, calls, file,
                   console,
                   resolves, signals, drew, flag_set_at, since_stop>>

\* log_line: "... answers={count}", and " rdata={rdata}" when rdata is truthy.
LogLine ==
    [ts |-> timestamp, fqdn |-> fqdn, qtype |-> args.qtype, rcode |-> rcode,
     answers |-> count, rdata |-> IF rdata # "" THEN rdata ELSE ""]

\* The throttle test on the counter after its increment.
AtInfo_OffByOne == PyMod(counter + 1, args.log_every) = 0

\* counter % args.log_every == 0, for a divisor that is not 0.
AtInfo == PyMod(counter, args.log_every) = 0

\* logging.info(log_line) if (counter % args.log_every == 0) else
\* logging.debug(log_line); the modulo raises ZeroDivisionError for
\* --log-every 0, which nothing catches.
main_log_line ==
    /\ pc = "log"
    /\ IF args.log_every = 0
       THEN /\ pc' = "crashed"
            /\ log_line' = LogLine
            /\ UNCHANGED <<calls, file, console>>
       ELSE /\ Emit(IF AtInfo THEN "INFO" ELSE "DEBUG", "query", timestamp)
            /\ log_line' = LogLine
            /\ pc' = "increment"
    /\ UNCHANGED <<args, charset, queried, nameservers, stop_requested, counter, sub, fqdn,
                   timestamp, rcode, count, rdata, stub, interval, slept,
                   resolves, signals, drew, flag_set_at, since_stop>>

\* An increment that counts the query twice.
main_increment_Twice ==
    /\ pc = "increment"
    /\ counter' = counter + 2
    /\ pc' = "interval"
    /\ UNCHANGED <<args, charset, queried, nameservers, stop_requested, locals, stub, interval,
                   slept, calls, file, console, resolves, signals, drew,
                   flag_set_at, since_stop>>

\* counter += 1
main_increment ==
    /\ pc = "increment"
    /\ counter' = counter + 1
    /\ pc' = "interval"
    /\ UNCHANGED <<args, charset, queried, nameservers, stop_requested, locals, stub, interval,
                   slept, calls, file, console, resolves, signals, drew,
                   flag_set_at, since_stop>>

\* The interval before jitter and whether random.uniform was called for it.
PreJitter ==
    IF args.min_interval = args.max_interval
    THEN {<<args.min_interval, FALSE>>}
    ELSE {<<x, TRUE>> : x \in Uniform(args.min_interval, args.max_interval)}

main_interval ==
    /\ pc = "interval"
    /\ \E d \in PreJitter : interval' = d[1] /\ drew' = d[2]
    /\ pc' = "jitter"
    /\ UNCHANGED <<args, charset, queried, nameservers, stop_requested, counter, locals, stub,
                   slept, calls, file, console, resolves, signals,
                   flag_set_at, since_stop>>

\* interval * 0.10
JitterAmount(i) == (i * JitterPercent) \div 100

\* The jitter block without its max(0.1, ...).
Jittered_NoFloor(i) ==
    IF args.jitter
    THEN Uniform(i - JitterAmount(i), i + JitterAmount(i))
    ELSE {i}

\* The interval after the jitter block.
Jittered(i) ==
    IF args.jitter
    THEN {Max(JitterFloor, x) :
            x \in Uniform(i - JitterAmount(i), i + JitterAmount(i))}
    ELSE {i}

main_jitter ==
    /\ pc = "jitter"
    /\ interval' \in Jittered(interval)
    /\ slept' = 0
    /\ pc' = "sleep_test"
    /\ UNCHANGED <<args, charset, queried, nameservers, stop_requested, counter, locals, stub,
                   calls, file, console, resolves, signals, drew,
                   flag_set_at, since_stop>>

\* The numbers n of sub-steps (n <= 46) for which the binary64 sum of n
\* additions of 0.2 is below the double nearest to n * 0.2.
AccumulatedBelow == {8, 9, 10, 11}

\* slept < interval, in binary64: slept is the accumulated sum of
\* slept / Step additions of 0.2, which differs from the decimal value by
\* rounding that matters only when the two sides are equal as decimals.
SleptLess(s, i) ==
    IF s = i THEN (s \div Step) \in AccumulatedBelow ELSE s < i

\* while slept < interval:
main_sleep_test ==
    /\ pc = "sleep_test"
    /\ pc' = IF SleptLess(slept, interval) THEN "sleep_flag" ELSE "loop"
    /\ UNCHANGED <<args, charset, queried, nameservers, stop_requested, counter, locals, stub,
                   interval, slept, calls, file, console, resolves, signals,
                   drew, flag_set_at, since_stop>>

\* The flag test of the sleep loop without its break.
main_sleep_flag_NoBreak ==
    /\ pc = "sleep_flag"
    /\ pc' = "sleep_call"
    /\ UNCHANGED <<args, charset, queried, nameservers, stop_requested, counter, locals, stub,
                   interval, slept, calls, file, console, resolves, signals,
                   drew, flag_set_at, since_stop>>

\* if stop_requested: break
main_sleep_flag ==
    /\ pc = "sleep_flag"
    /\ pc' = IF stop_requested THEN "loop" ELSE "sleep_call"
    /\ UNCHANGED <<args, charset, queried, nameservers, stop_requested, counter, locals, stub,
                   interval, slept, calls, file, console, resolves, signals,
                   drew, flag_set_at, since_stop>>

\* time.sleep(step) is called: a sub-step starts.
main_sleep_call ==
    /\ pc = "sleep_call"
    /\ since_stop' = IF stop_requested
                     THEN [since_stop EXCEPT !.substeps = @ + 1]
                     ELSE since_stop
    /\ pc' = "sleeping"
    /\ UNCHANGED <<args, charset, queried, nameservers, stop_requested, counter, locals, stub,
                   interval, slept, calls, file, console, resolves, signals,
                   drew, flag_set_at>>

\* time.sleep(step) returns (a handled signal does not cut it short);
\* slept += step
main_wake ==
    /\ pc = "sleeping"
    /\ slept' = slept + Step
    /\ pc' = "sleep_test"
    /\ UNCHANGED <<args, charset, queried, nameservers, stop_requested, counter, locals, stub,
                   interval, calls, file, console, resolves, signals, drew,
                   flag_set_at, since_stop>>

\* A final step that clears the flag when it logs.
main_final_log_Reset ==
    /\ pc = "final"
    /\ Emit("INFO", "stopped", 0)
    /\ pc' = "returned"
    /\ stop_requested' = FALSE
    /\ UNCHANGED <<args, charset, queried, nameservers, counter, locals, stub,
                   interval, slept, resolves, signals, drew, flag_set_at,
                   since_stop>>

\* logging.info("Beacon stopped. Finalizing...")
main_final_log ==
    /\ pc = "final"
    /\ Emit("INFO", "stopped", 0)
    /\ pc' = "returned"
    /\ UNCHANGED <<args, charset, queried, nameservers, stop_requested, counter, locals, stub,
                   interval, slept, resolves, signals, drew, flag_set_at,
                   since_stop>>

\* main() has returned and the interpreter exits with status 0.
main_exit ==
    /\ pc = "returned"
    /\ pc' = "exited"
    /\ UNCHANGED <<args, charset, queried, nameservers, stop_requested, counter, locals, stub,
                   interval, slept, calls, file, console, resolves, signals,
                   drew, flag_set_at, since_stop>>

main ==
    \/ main_parse_args
    \/ main_resolver
    \/ main_log_starting
    \/ main_log_press
    \/ main_loop_test
    \/ main_begin_query
    \/ main_end_query
    \/ main_log_line
    \/ main_increment
    \/ main_interval
    \/ main_jitter
    \/ main_sleep_test
    \/ main_sleep_flag
    \/ main_sleep_call
    \/ main_wake
    \/ main_final_log
    \/ main_exit

Next == main \/ signal_handler

Spec == Init /\ [][Next]_vars

----------------------------------------------------------------------------
(* perform_query on its own: the first query of the base command line is   *)
(* in flight and the resolver call may behave in any way.                  *)

QueryInit ==
    /\ pc = "query"
    /\ args = Base
    /\ nameservers = "system"
    /\ stop_requested = FALSE
    /\ counter = 0
    /\ sub = <<"a">>
    /\ fqdn = <<"a", ".", "t", "l">>
    /\ timestamp = 1
    /\ stub \in AllBehaviours
    /\ rcode = ""
    /\ count = 0
    /\ rdata = ""
    /\ log_line = NoLine
    /\ interval = 0
    /\ slept = 0
    /\ calls = <<Record("INFO", "resolver", 0), Record("INFO", "starting", 0),
                 Record("INFO", "press", 0)>>
    /\ file = calls
    /\ console = calls
    /\ resolves = 1
    /\ signals = 0
    /\ drew = FALSE
    /\ flag_set_at = "never"
    /\ since_stop = [queries |-> 0, substeps |-> 0]
    /\ queried = fqdn
    /\ charset = NoCharset

QuerySpec == QueryInit /\ [][main_end_query]_vars

\* rand_subdomain on its own: one call with each length and charset below.
MaxLength == 4

Lengths == {-1, 0} \cup (1..MaxLength)

Charsets ==
    {NoCharset, Charset(<<>>), Charset(<<"x">>), Charset(<<"x", "y">>),
     Charset(<<"0", "1", "z">>)}

GenInit ==
    /\ pc = "gen_call"
    /\ args \in {[Base EXCEPT !.sub_len = n] : n \in Lengths}
    /\ charset \in Charsets
    /\ nameservers = "system"
    /\ stop_requested = FALSE
    /\ counter = 0
    /\ sub = <<>>
    /\ fqdn = <<>>
    /\ timestamp = 0
    /\ stub = NoStub
    /\ rcode = ""
    /\ count = 0
    /\ rdata = ""
    /\ log_line = NoLine
    /\ interval = 0
    /\ slept = 0
    /\ calls = <<>>
    /\ file = <<>>
    /\ console = <<>>
    /\ resolves = 0
    /\ signals = 0
    /\ drew = FALSE
    /\ flag_set_at = "never"
    /\ since_stop = [queries |-> 0, substeps |-> 0]
    /\ queried = <<>>

\* One call of rand_subdomain(length, charset); random.choice raises
\* IndexError on an empty charset when length >= 1.
rand_subdomain_call ==
    /\ pc = "gen_call"
    /\ LET labels == rand_subdomain(args.sub_len, charset) IN
          IF labels = {}
          THEN /\ pc' = "crashed"
               /\ sub' = sub
          ELSE /\ pc' = "gen_done"
               /\ sub' \in labels
    /\ UNCHANGED <<args, charset, queried, nameservers, stop_requested,
                   counter, fqdn, timestamp, rcode, count, rdata, log_line,
                   stub, interval, slept, calls, file, console, resolves,
                   signals, drew, flag_set_at, since_stop>>

GenSpec == GenInit /\ [][rand_subdomain_call]_vars

----------------------------------------------------------------------------
(* Reading the logs                                                        *)

\* The records of one kind, in order.
OfKind(log, kind) == SelectSeq(log, LAMBDA r : r.kind = kind)

\* The timestamps of the query lines, in order.
QueryStamps(log) ==
    LET q == OfKind(log, "query") IN [i \in 1..Len(q) |-> q[i].ts]

StatusKinds == {"NOERROR", "NXDOMAIN", "NOANSWER", "TIMEOUT", "ERROR"}

\* The records' texts joined by ", ", built from the left.
RECURSIVE SummaryOf(_, _)
SummaryOf(recs, n) ==
    IF n = 1 THEN recs[1].text
    ELSE SummaryOf(recs, n - 1) \o ", " \o recs[n].text

AllRender(recs) == \A i \in 1..Len(recs) : recs[i].renders

\* The command line breaks the data model's invariant on the intervals and
\* the label length.
InvalidConfig ==
    \/ args.min_interval > args.max_interval
    \/ args.min_interval < 0
    \/ args.max_interval < 0
    \/ args.sub_len <= 0

\* A command line within the data model's invariant and with a throttle of
\* at least 1.
SoundConfig == ~InvalidConfig /\ args.log_every >= 1

----------------------------------------------------------------------------
(* C1: perform_query never raises: whatever the resolver call does         *)
(* (NXDOMAIN, NoAnswer, Timeout, any other exception, a to_text() that     *)
(* fails), main() gets a regular (statusKind, answerCount, answerSummary)  *)
(* with statusKind one of the five kinds, and is not ended by an           *)
(* exception of the query step.                                            *)
C1_NeverRaises ==
    /\ pc # "crashed"
    /\ perform_query(stub).raised = "none"
    /\ pc = "log" => rcode \in StatusKinds /\ count \in Nat

\* A rendering failure has been turned into a regular ERROR outcome.
C1_Witness ==
    /\ pc = "log"
    /\ stub.raises = "none"
    /\ ~AllRender(stub.answers)
    /\ rcode = "ERROR"

----------------------------------------------------------------------------
(* C2: perform_query maps each resolver condition to the outcome of the    *)
(* table: n >= 1 records that all render give (NOERROR, n, their texts     *)
(* joined by ", " in answer order); NXDOMAIN, NoAnswer and Timeout give    *)
(* (NXDOMAIN | NOANSWER | TIMEOUT, 0, ""); any other failure, a failing    *)
(* to_text() included, gives (ERROR, 0, str(failure)).  So the count is 0  *)
(* unless the kind is NOERROR, and the summary is empty unless the kind    *)
(* is NOERROR or ERROR.                                                    *)
C2_OutcomeTable ==
    pc = "log" =>
        /\ stub.raises = "none" /\ AllRender(stub.answers) =>
              /\ rcode = "NOERROR"
              /\ count = Len(stub.answers)
              /\ count >= 1
              /\ rdata = SummaryOf(stub.answers, Len(stub.answers))
        /\ stub.raises = "NXDOMAIN" =>
              rcode = "NXDOMAIN" /\ count = 0 /\ rdata = ""
        /\ stub.raises = "NoAnswer" =>
              rcode = "NOANSWER" /\ count = 0 /\ rdata = ""
        /\ stub.raises = "Timeout" =>
              rcode = "TIMEOUT" /\ count = 0 /\ rdata = ""
        /\ stub.raises = "Other" =>
              rcode = "ERROR" /\ count = 0 /\ rdata = stub.msg
        /\ stub.raises = "none" /\ ~AllRender(stub.answers) =>
              rcode = "ERROR" /\ count = 0 /\ rdata = BadRdata.text
        /\ rcode # "NOERROR" => count = 0
        /\ rdata # "" => rcode \in {"NOERROR", "ERROR"}

\* The three-record example: "1.2.3.4, 1.2.3.5, 1.2.3.6" with count 3.
C2_Witness ==
    /\ pc = "log"
    /\ stub = Answers(<<Rdata("1.2.3.4"), Rdata("1.2.3.5"), Rdata("1.2.3.6")>>)
    /\ rcode = "NOERROR"
    /\ count = 3
    /\ rdata = "1.2.3.4, 1.2.3.5, 1.2.3.6"

----------------------------------------------------------------------------
(* C3: the scheduler loop ends only because of the shutdown signal: for    *)
(* every command line the parser accepts and every sequence of query       *)
(* outcomes, whenever the loop has been left (the final log is next or     *)
(* done, or an exception ended an iteration) the shutdown flag is set.     *)
LoopLeft == pc \in {"final", "returned", "exited", "crashed"}

C3_OnlyShutdownEndsLoop == LoopLeft => stop_requested

----------------------------------------------------------------------------
(* C4: a flag set while a sleep sub-step is in progress makes the loop     *)
(* abandon the rest of the sleep: that sub-step completes, no further      *)
(* sub-step and no further query is started, and the loop goes on to the   *)
(* final log.                                                              *)
C4_StopDuringSubStep ==
    flag_set_at = "sleeping" =>
        /\ since_stop.substeps = 0
        /\ since_stop.queries = 0
        /\ pc \in {"sleeping", "sleep_test", "sleep_flag", "loop", "final",
                   "returned", "exited"}

\* The flag was set during a sub-step and the final log was written with
\* more than a whole sub-step of the interval left unslept.
C4_Witness ==
    /\ flag_set_at = "sleeping"
    /\ pc = "returned"
    /\ slept + Step < interval

----------------------------------------------------------------------------
(* C5: every query's line reaches the log file whatever logEvery is: when  *)
(* the run has ended the file holds one line per query issued, in query    *)
(* order (stated here for the sound command lines alone, logEvery >= 1).   *)
C5_EveryLineInFile ==
    (pc = "exited" /\ SoundConfig) =>
        QueryStamps(file) = [i \in 1..resolves |-> i]

----------------------------------------------------------------------------
(* C6: the k-th query's line is logged at INFO exactly when the number of  *)
(* queries completed before it is a multiple of logEvery, and at DEBUG     *)
(* otherwise; the counter starts at 0 and is incremented once after each   *)
(* line; the startup lines and the final line are logged at INFO.          *)
Multiple(n, d) == \E q \in (0 - n)..n : q * d = n

C6_Throttle ==
    /\ \A i \in 1..Len(calls) :
          /\ calls[i].kind = "query" =>
                /\ calls[i].level \in {"INFO", "DEBUG"}
                /\ calls[i].level = "INFO"
                      <=> Multiple(calls[i].ts - 1, args.log_every)
          /\ calls[i].kind \in {"resolver", "starting", "press", "stopped"} =>
                calls[i].level = "INFO"
    /\ QueryStamps(calls) = [i \in 1..Len(OfKind(calls, "query")) |-> i]
    /\ counter = Len(OfKind(calls, "query"))
                   - (IF pc = "increment" THEN 1 ELSE 0)

\* A query's line was logged at DEBUG, a later one at INFO, and the final
\* line at INFO.
C6_Witness ==
    /\ pc = "exited"
    /\ \E i \in 1..Len(calls) : \E j \in (i + 1)..Len(calls) :
          /\ calls[i].kind = "query" /\ calls[i].level = "DEBUG"
          /\ calls[j].kind = "query" /\ calls[j].level = "INFO"

----------------------------------------------------------------------------
(* C7: once the flag is set, a run in which every resolver call returns    *)
(* and every sub-step completes logs 'Beacon stopped' exactly once and     *)
(* ends in the terminal state: a run that entered main()'s body and has    *)
(* ended with the flag set ended by the normal exit, with one final line.  *)
C7_StopEndsStopped ==
    (stop_requested /\ Ended /\ pc # "usage_error") =>
        pc = "exited" /\ Len(OfKind(calls, "stopped")) = 1

----------------------------------------------------------------------------
(* C8: the 'stopping' and 'stopped' messages.                              *)

\* Position of the first record of a kind (0: none).
FirstOf(log, kind) ==
    IF \E i \in 1..Len(log) : log[i].kind = kind
    THEN CHOOSE i \in 1..Len(log) :
            /\ log[i].kind = kind
            /\ \A j \in 1..(i - 1) : log[j].kind # kind
    ELSE 0

OnePair(log) ==
    /\ Len(OfKind(log, "stopping")) = 1
    /\ Len(OfKind(log, "stopped")) = 1
    /\ FirstOf(log, "stopping") < FirstOf(log, "stopped")

(* C8 as stated: every run that ends shows exactly one 'stopping' line and *)
(* exactly one 'stopped' line, in that order, for any number and timing of *)
(* stop signals (stated here for the sound command lines alone).           *)
C8_SinglePair == (pc = "exited" /\ SoundConfig) => OnePair(file)

(* C8 as amended: each delivered signal logs one 'stopping' line; the      *)
(* 'stopped' line is logged at most once, only after a 'stopping' line,    *)
(* and exactly once when main() returns; with exactly one signal the log   *)
(* shows one 'stopping' line and then one 'stopped' line.                  *)
C8_PairPerSignal ==
    /\ Len(OfKind(file, "stopping")) = signals
    /\ Len(OfKind(file, "stopped")) <= 1
    /\ FirstOf(file, "stopped") # 0 =>
          /\ FirstOf(file, "stopping") # 0
          /\ FirstOf(file, "stopping") < FirstOf(file, "stopped")
    /\ pc \in {"returned", "exited"} => Len(OfKind(file, "stopped")) = 1
    /\ (pc = "exited" /\ signals = 1) => OnePair(file)

\* Two signals: one 'stopping' line before the final line and one after it.
C8_Witness ==
    /\ pc = "exited"
    /\ signals = 2
    /\ \E i \in 1..Len(file) :
          file[i].kind = "stopping" /\ i > FirstOf(file, "stopped")

----------------------------------------------------------------------------
(* C9: a command line with minInterval > maxInterval, a negative interval  *)
(* or subdomainLength <= 0 is fatal before the loop: no query is ever      *)
(* issued with it.                                                         *)
C9_InvalidConfigIsFatal == InvalidConfig => resolves = 0 /\ sub = <<>>

----------------------------------------------------------------------------
(* C10: with minInterval <= maxInterval the interval before jitter lies    *)
(* in [minInterval, maxInterval], and with minInterval = maxInterval = X   *)
(* it is X and random.uniform is not called for it.                        *)
C10_PreJitter ==
    pc = "jitter" =>
        /\ args.min_interval <= args.max_interval =>
              /\ args.min_interval <= interval
              /\ interval <= args.max_interval
        /\ args.min_interval = args.max_interval =>
              interval = args.min_interval /\ ~drew

\* A drawn interval strictly between two different bounds.
C10_Witness ==
    /\ pc = "jitter"
    /\ drew
    /\ args.min_interval < interval
    /\ interval < args.max_interval

----------------------------------------------------------------------------
(* C11: with jitter enabled the final interval is at least 0.1 s and lies  *)
(* within 10% of the pre-jitter interval I, or is the floor 0.1 s when a   *)
(* value drawn in that range is below the floor; with jitter disabled the  *)
(* final interval is I unchanged, without a floor.                         *)
C11_JitterStep ==
    (pc = "jitter" /\ pc' = "sleep_test") =>
        IF args.jitter
        THEN /\ interval' >= JitterFloor
             /\ \/ /\ 9 * interval <= 10 * interval'
                   /\ 10 * interval' <= 11 * interval
                \/ /\ interval' = JitterFloor
                   /\ 9 * interval < 10 * JitterFloor
                        \/ 11 * interval < 10 * JitterFloor
        ELSE interval' = interval

C11_Jitter == [][C11_JitterStep]_vars

\* Jitter moved a fixed 0.4 s interval up by its full 10%.
C11_Witness ==
    /\ pc = "sleep_test"
    /\ args.jitter
    /\ args.min_interval = 40 /\ args.max_interval = 40
    /\ slept = 0
    /\ interval = 44

----------------------------------------------------------------------------
LowercaseLetters ==
    {"a","b","c","d","e","f","g","h","i","j","k","l","m",
     "n","o","p","q","r","s","t","u","v","w","x","y","z"}

Digits == {"0","1","2","3","4","5","6","7","8","9"}

Members(seq) == {seq[i] : i \in 1..Len(seq)}

\* The charset C the call draws from.
C12_C ==
    IF charset.given THEN Members(charset.chars)
    ELSE LowercaseLetters \cup Digits

C12_Returned ==
    (pc = "gen_done" /\ args.sub_len >= 1 /\ C12_C # {}) =>
        /\ Len(sub) = args.sub_len
        /\ \A i \in 1..Len(sub) : sub[i] \in C12_C
        /\ ~charset.given => Cardinality(C12_C) = 36

C12_CallStep ==
    (pc = "gen_call" /\ pc' = "gen_done") =>
        UNCHANGED <<args, charset, queried, nameservers, stop_requested,
                    counter, fqdn, timestamp, rcode, count, rdata, log_line,
                    stub, interval, slept, calls, file, console, resolves,
                    signals, drew, flag_set_at, since_stop>>

(* C12: for every length >= 1 and non-empty charset C, rand_subdomain      *)
(* returns exactly `length` characters, each a member of C; with no        *)
(* charset given C is the 36 lowercase letters and digits; the call leaves *)
(* every other part of the program state as it was.                        *)
C12_Generator == []C12_Returned /\ [][C12_CallStep]_vars

\* A label of the largest length drawn from a three-character charset.
C12_Witness ==
    /\ pc = "gen_done"
    /\ charset = Charset(<<"0", "1", "z">>)
    /\ args.sub_len = MaxLength
    /\ Len(sub) = MaxLength
    /\ sub[1] = "z"

----------------------------------------------------------------------------
\* Every query line of the log comes before every 'Beacon stopped' line.
QueryLinesFirst(log) ==
    \A i, j \in 1..Len(log) :
        (log[i].kind = "query" /\ log[j].kind = "stopped") => i < j

(* C13: a stop signal does not interrupt an in-flight query: when the flag *)
(* is set between the start of a query and the emission of its log line,   *)
(* the loop is left only after that query has been classified, logged and  *)
(* counted, so the query lines emitted are as many as the queries started, *)
(* and every query line precedes the final 'Beacon stopped' line.          *)
C13_InFlightQueryCompletes ==
    /\ QueryLinesFirst(calls)
    /\ (flag_set_at \in {"query", "log"} /\ LoopLeft) =>
          /\ pc # "crashed"
          /\ Len(OfKind(calls, "query")) = resolves
          /\ counter = resolves

----------------------------------------------------------------------------
\* The sub-steps slept in the current iteration.
SubSteps == slept \div Step

(* C14: absent a shutdown request the loop sleeps, between two consecutive *)
(* queries, exactly the smallest number n of 0.2 s sub-steps with          *)
(* n * 0.2 >= interval, and issues no query while the accumulated sleep    *)
(* is below the interval.                                                  *)
C14_SmallestSleep ==
    (SoundConfig /\ ~stop_requested /\ resolves >= 1 /\ pc = "loop") =>
        /\ SubSteps * Step >= interval
        /\ SubSteps = 0 \/ (SubSteps - 1) * Step < interval

----------------------------------------------------------------------------
C15_FlagStep ==
    /\ stop_requested => stop_requested'
    /\ stop_requested' # stop_requested => signals' = signals + 1
    /\ signals' = signals + 1 => stop_requested'

(* C15: the shutdown flag is monotonic: it is false until a signal is      *)
(* delivered, changes only in a step of the signal handler, is true after  *)
(* every delivery, and once true stays true for the rest of the run.       *)
C15_FlagMonotonic ==
    /\ [](signals = 0 => ~stop_requested)
    /\ [](signals >= 1 => stop_requested)
    /\ [][C15_FlagStep]_vars

\* Two signals were delivered and the run went on to its normal exit with
\* the flag still set.
C15_Witness ==
    /\ signals = MaxSignals
    /\ stop_requested
    /\ pc = "exited"
    /\ resolves >= 1

----------------------------------------------------------------------------
(* C16: one resolver call per iteration, one query at a time, and the      *)
(* counter and the query lines.                                            *)

QueryLines == Len(OfKind(calls, "query"))

\* As stated: in every reachable state the counter equals the number of
\* queries whose log line has been emitted.
C16_CounterEqualsLines == counter = QueryLines

\* The iteration is between the start of its query and its increment (or
\* was ended there by an exception).
InIteration == pc \in {"query", "log", "increment", "crashed"}

C16_Counts ==
    /\ counter = QueryLines - (IF pc = "increment" THEN 1 ELSE 0)
    /\ resolves = counter + (IF InIteration THEN 1 ELSE 0)

C16_Step ==
    /\ resolves' # resolves =>
          pc = "generate" /\ pc' = "query" /\ resolves' = resolves + 1
    /\ counter' # counter =>
          pc = "increment" /\ counter' = counter + 1
    /\ pc = "query" => pc' \in {"query", "log", "crashed"}

(* C16 (amended): each iteration makes one resolver call, and none again   *)
(* before its line is logged and the counter incremented by 1; the counter *)
(* equals the number of query lines emitted except between the emission of *)
(* a line and the increment that follows it, where it is one less; the     *)
(* resolver calls made are the counter plus one while an iteration is      *)
(* between its call and its increment, and the counter otherwise.          *)
C16_OneQueryPerTick == []C16_Counts /\ [][C16_Step]_vars

\* The second query's line is out and the counter still reads 1.
C16_Witness ==
    /\ pc = "increment"
    /\ QueryLines = 2
    /\ counter = 1
    /\ resolves = 2

----------------------------------------------------------------------------
(* C17: the fully-qualified name.                                          *)

\* L + "." + D for the label and the base domain of the current query.
Dotted == sub \o <<".">> \o args.domain

EndsWithDot(s) == s # <<>> /\ s[Len(s)] = "."

\* The number of dots s ends with.
TrailingDots(s) ==
    CHOOSE k \in 0..Len(s) :
        /\ \A i \in (Len(s) - k + 1)..Len(s) : s[i] = "."
        /\ k = Len(s) \/ s[Len(s) - k] # "."

\* The line logged for the current query, once there is one.
LoggedCurrent == log_line # NoLine /\ log_line.ts = timestamp

\* As stated: the queried name is L + "." + D with a single trailing dot
\* removed if and only if D ends with a dot, and it is the logged name.
C17_SingleDotIffDomainDotted ==
    resolves >= 1 =>
        /\ queried = IF EndsWithDot(args.domain)
                     THEN SubSeq(Dotted, 1, Len(Dotted) - 1)
                     ELSE Dotted
        /\ LoggedCurrent => log_line.fqdn = queried

(* C17 (amended): the queried name is L + "." + D with every trailing dot  *)
(* removed, so it never ends with a dot: both dots of a domain "tl..", and *)
(* the joining dot itself when D is empty; the name queried is the name in *)
(* that query's log line.                                                  *)
C17_AllTrailingDots ==
    resolves >= 1 =>
        /\ queried = SubSeq(Dotted, 1, Len(Dotted) - TrailingDots(Dotted))
        /\ ~EndsWithDot(queried)
        /\ LoggedCurrent => log_line.fqdn = queried

\* The domain "tl.." was queried and logged as label.tl
C17_Witness ==
    /\ pc = "increment"
    /\ args.domain = <<"t", "l", ".", ".">>
    /\ queried = sub \o <<".", "t", "l">>
    /\ LoggedCurrent
    /\ log_line.fqdn = queried

----------------------------------------------------------------------------
\* Where an iteration whose query started after the flag was set can be:
\* never in a sub-step, never at the start of another query.
AfterLateQuery ==
    {"query", "log", "increment", "interval", "jitter", "sleep_test",
     "sleep_flag", "loop", "final", "returned", "exited", "crashed"}

C18_Bounded ==
    /\ since_stop.queries <= 1
    /\ since_stop.queries = 1 =>
          /\ since_stop.substeps = 0
          /\ pc \in AfterLateQuery

C18_LoopStep ==
    /\ (stop_requested /\ pc = "loop" /\ pc' # pc) => pc' = "final"
    /\ (since_stop.queries = 1 /\ pc = "sleep_flag" /\ pc' # pc) =>
          pc' = "loop"

(* C18: wherever the flag is set, between the loop-condition check and the *)
(* start of the query included, at most one query is started after it;     *)
(* the iteration of that query starts no sleep sub-step, and the loop is   *)
(* left at the next loop-condition check.                                  *)
C18_BoundedWorkAfterStop == []C18_Bounded /\ [][C18_LoopStep]_vars

\* The flag was set between the loop test and the start of the query; that
\* one query ran, nothing was slept, and the run ended normally.
C18_Witness ==
    /\ flag_set_at = "generate"
    /\ since_stop.queries = 1
    /\ since_stop.substeps = 0
    /\ QueryLines = resolves
    /\ pc = "exited"

----------------------------------------------------------------------------
\* The flag was first set during startup, before the loop was reached.
StartupStop == flag_set_at \in {"parse", "resolver", "starting", "press"}

(* C19: when the flag is already set as the loop is first entered, the     *)
(* loop body never runs: no query is issued, the counter stays 0, nothing  *)
(* is slept, and main() returns with the 'Beacon stopped' line logged.     *)
C19_StopBeforeFirstTick ==
    StartupStop =>
        /\ resolves = 0
        /\ counter = 0
        /\ QueryLines = 0
        /\ slept = 0
        /\ since_stop = [queries |-> 0, substeps |-> 0]
        /\ pc \in {"parse", "usage_error", "resolver", "starting", "press",
                   "loop", "final", "returned", "exited"}
        /\ pc \in {"returned", "exited"} =>
              /\ Len(OfKind(calls, "stopped")) = 1
              /\ Len(OfKind(file, "stopped")) = 1
              /\ calls[Len(calls)].kind \in {"stopped", "stopping"}

\* A signal arrived while the start-up lines were being logged; the run
\* ended normally without a query.
C19_Witness ==
    /\ flag_set_at = "starting"
    /\ pc = "exited"
    /\ resolves = 0
    /\ Len(OfKind(file, "stopped")) = 1

====
